---- MODULE Spec2Model ----
(***************************************************************************)
(* Model of src/src/stimulus-stream-actions.ts: the StreamActionRegistry   *)
(* singleton (controllers, isListening, handleStreamRender, register,      *)
(* unregister), wireStreamActions and the two entry points                 *)
(* useStreamActions / useCustomStreamActions.                              *)
(*                                                                         *)
(* JavaScript is single threaded: the listener runs to completion for one  *)
(* event.  The loop of handleStreamRender is modelled one controller per   *)
(* step (pc = "iterating"); every other operation is enabled only while no *)
(* dispatch is in progress (pc = "idle").  The outcome of a dispatch stays *)
(* observable in pc = "done" until DispatchReturn.                         *)
(***************************************************************************)
EXTENDS Integers, Sequences, FiniteSets, TLC

\* ------------------------------------------------------------------ bounds
\* How many times one controller may be passed to wireStreamActions.
MaxWrap == 2

\* How many dispatches may be suspended inside a handler at one time.
MaxNesting == 1

\* How many calls of one method of one controller a dispatch is followed for.
MaxCalls == 2

\* ------------------------------------------------------------ value domains
Undef == "undefined"

\* Controller instances (reference identities); all of one class, as the
\* MockController of the unit tests.
Comps == {"c1", "c2"}

\* Own keys an action map may have, and the names an event may carry.  "A"
\* differs from "a" only in case; "constructor" is a member of
\* Object.prototype, which the object built by the spread inherits.
Keys == {"a", "b"}
ProtoNames == {"constructor"}
EventNames == Keys \cup {"A"} \cup ProtoNames

\* Property names looked up on a controller.  Besides returning, "leave"
\* disconnects its own controller, "dropOther" disconnects and "joinOther"
\* connects the other controller, and "emit" dispatches another
\* turbo:before-stream-render event on the document; "rejoin" disconnects
\* and then connects its own controller, "rejoinOther" the other one.
Methods == {"m1", "m2", "boom", "prop", "nope",
            "leave", "dropOther", "joinOther", "emit",
            "rejoin", "rejoinOther"}

\* The controller that is not c.
Other(c) == CHOOSE o \in Comps : o # c

\* StreamActionConfig values: a string, or {method, preventDefault?}.
Str(m) == [kind |-> "string", method |-> m, pd |-> Undef]
Obj(m, p) == [kind |-> "object", method |-> m, pd |-> p]
\* Values that are no StreamActionConfig: a number, null.  An object
\* without a method is Obj(Undef, p).
Num == [kind |-> "number", method |-> Undef, pd |-> Undef]
Null == [kind |-> "null", method |-> Undef, pd |-> Undef]
\* Result of reading a key an object does not have.
NoEntry == [kind |-> "undefined", method |-> Undef, pd |-> Undef]
\* Object.prototype.constructor: a function, with neither a `method` nor a
\* `preventDefault` property.
ProtoMember == [kind |-> "function", method |-> Undef, pd |-> Undef]

\* StreamActionMap with own keys among Keys (NoEntry: key not present).
MapOf(da, db) == [k \in Keys |-> IF k = "a" THEN da ELSE db]
NoMap == MapOf(NoEntry, NoEntry)

\* The class's `static streamActions`: absent, or one of these maps.
StaticChoices ==
  { [defined |-> FALSE, map |-> NoMap],
    [defined |-> TRUE, map |-> MapOf(Str("m1"), Obj("m2", "false"))],
    [defined |-> TRUE, map |-> MapOf(Obj("m1", "false"), Num)],
    [defined |-> TRUE, map |-> MapOf(Obj("m1", Undef), Null)],
    [defined |-> TRUE, map |-> MapOf(Obj("m1", "true"), Str("boom"))] }

\* Maps handed to useCustomStreamActions.  "prop" names a property that is
\* no function, "nope" a property the controller does not have.
CustomChoices ==
  { MapOf(Str("m2"), NoEntry),
    MapOf(Obj("m2", "false"), Obj(Undef, "true")),
    MapOf(Str("prop"), Null),
    MapOf(Str("nope"), Str("m1")) }

\* event.detail of a turbo:before-stream-render event: the fields the
\* listener destructures (action, render) and the newStream node, of which
\* only its `action` attribute matters here.  Events are cancelable.
Detail(a, r, n) == [present |-> TRUE, action |-> a, render |-> r, newStream |-> n]
\* An event built without a detail: CustomEvent.detail is null.
NullDetail == [present |-> FALSE, action |-> Undef, render |-> FALSE,
               newStream |-> Undef]
NoEvent == Detail(Undef, FALSE, Undef)
EventChoices ==
  { Detail(a, TRUE, Undef) : a \in EventNames }
    \cup { Detail(Undef, TRUE, Undef), Detail("", TRUE, Undef),
           Detail("a", FALSE, Undef), Detail(Undef, FALSE, Undef),
           Detail(Undef, FALSE, "a"), Detail(Undef, FALSE, "b"),
           NullDetail }

\* Values passed as `actions` to useCustomStreamActions: a map, or a value
\* that is no object.
Arg(t, m) == [type |-> t, map |-> m]
NoArg == Arg("undefined", NoMap)
NonObjects == {"null", "undefined", "string", "number"}
CustomArgs ==
  { Arg("object", m) : m \in CustomChoices } \cup { Arg(t, NoMap) : t \in NonObjects }

\* Controllers whose class has connect() and disconnect() of its own; the
\* other is a bare object, controller.connect undefined before wiring.
HasOwnHooks(c) == c = "c1"

\* Order of Object.entries over a map.
KeyOrder == <<"a", "b">>

\* Values of process.env.NODE_ENV.
NodeEnvs == {"production", "development", "test"}

VARIABLES
  streamActions,        \* ctor.streamActions (shared by the class)
  customStreamActions,  \* controller._customStreamActions, NoMap if unset
  wrapped,              \* how many wireStreamActions wrappers a controller has
  controllers,          \* registry.controllers, in insertion order
  isListening,          \* registry.isListening
  docListener,          \* handleStreamRender is a listener of the document
  isConnected,          \* controller.element.isConnected
  deactivated,          \* the wrapped disconnect ran last on the controller
  pc,                   \* "idle", "iterating", "done", "returned"
  event,                \* detail of the event being dispatched
  cursor,               \* position of the Set iterator in controllers
  defaultPrevented,     \* event.defaultPrevented
  invoked,              \* calls made per controller and method, this event
  threw,                \* controllers whose handler raised, this event
  sawPrevented,         \* controllers whose handler was entered with
                        \* streamData.event.defaultPrevented true, this event
  escaped,              \* an exception left the listener
  nodeEnv,              \* process.env.NODE_ENV as the call in progress reads it
  diagnostics,          \* console.warn / console.error calls of that call
  call,                 \* the binding or hook call that has just returned
  node,                 \* the payload node a handler was handed a view of
  result,               \* what the handler's last read of the view gave
  stack                 \* dispatches suspended inside a handler, outermost first

vars == <<streamActions, customStreamActions, wrapped, controllers,
          isListening, docListener, isConnected, deactivated, pc, event,
          cursor, defaultPrevented, invoked, threw, sawPrevented, escaped,
          nodeEnv,
          diagnostics, call, node, result, stack>>

config == <<streamActions, customStreamActions, wrapped>>
registry == <<controllers, isListening, docListener>>
dispatch == <<pc, event, cursor, defaultPrevented, invoked, threw,
              sawPrevented, escaped,
              nodeEnv, diagnostics, call>>
handling == <<event, cursor, defaultPrevented, invoked, threw, sawPrevented>>
view == <<node, result, stack>>

NoCall == [op |-> "none", c |-> Undef, arg |-> NoArg, wired |-> FALSE,
           size |-> 0, member |-> FALSE, trace |-> <<>>]

NoCalls == [c \in Comps |-> [m \in Methods |-> 0]]
Range(s) == {s[i] : i \in 1..Len(s)}

\* ------------------------------------------------- effective configuration
\* ctor.streamActions || {}
StaticActions(sa) == IF sa.defined THEN sa.map ELSE NoMap

\* Mutant: the spread written the other way round, static entries winning.
Merge_StaticWins(staticActions, customActions) ==
  [k \in Keys |-> IF staticActions[k] # NoEntry THEN staticActions[k]
                  ELSE customActions[k]]

\* Mutant: a deep merge, an override entry inheriting the static entry's
\* preventDefault when it states none.
Merge_Deep(staticActions, customActions) ==
  [k \in Keys |->
     IF customActions[k] = NoEntry THEN staticActions[k]
     ELSE IF staticActions[k].kind = "object" /\ customActions[k].pd = Undef
       THEN Obj(customActions[k].method, staticActions[k].pd)
     ELSE customActions[k]]

\* { ...staticActions, ...customActions }
Merge(staticActions, customActions) ==
  [k \in Keys |-> IF customActions[k] # NoEntry THEN customActions[k]
                  ELSE staticActions[k]]

\* actions[action]: an own key, else what Object.prototype supplies.
Lookup(actions, action) ==
  IF action \in Keys /\ actions[action] # NoEntry THEN actions[action]
  ELSE IF action \in ProtoNames THEN ProtoMember
  ELSE NoEntry

\* if (config)
Truthy(cfg) == cfg.kind \notin {"undefined", "null"}

\* methodName: the string itself, or config.method.
MethodName(cfg) == cfg.method

\* Mutant: `?? false`, an omitted preventDefault read as false.
PreventDefault_OmittedFalse(cfg) ==
  IF cfg.kind = "string" THEN TRUE ELSE cfg.pd = "true"

\* preventDefault = true for a string, config.preventDefault ?? true else.
PreventDefault(cfg) ==
  IF cfg.kind = "string" THEN TRUE
  ELSE IF cfg.pd = Undef THEN TRUE
  ELSE cfg.pd = "true"

\* controller[methodName]: what the controllers of the model carry under
\* each property name.
Handler(methodName) ==
  IF methodName \in {"m1", "m2", "leave", "dropOther", "joinOther", "emit",
                     "rejoin", "rejoinOther"}
    THEN "function"
  ELSE IF methodName = "boom" THEN "throwing"
  ELSE IF methodName = "prop" THEN "value"
  ELSE "undefined"

\* Mutant: the element's isConnected not looked at.
CanInvoke_Detached(handler, connected) == handler \in {"function", "throwing"}

\* Mutant: the typeof test dropped, any truthy property called.
CanInvoke_NoTypeCheck(handler, connected) ==
  handler \in {"function", "throwing", "value"} /\ connected

\* handler && typeof handler === 'function' && controller.element.isConnected
CanInvoke(handler, connected) ==
  handler \in {"function", "throwing"} /\ connected

\* Mutant: the call made without the try/catch around it.
CallOutcome_NoCatch(handler) ==
  IF handler = "throwing" THEN "escaped" ELSE "returned"

\* try { handler.call(controller, streamData) } catch (error) { ... }
CallOutcome(handler) ==
  IF handler = "throwing" THEN "caught" ELSE "returned"

\* Mutant: the flag of the controller handled last decides.
NextPrevented_LastWins(prevented, preventDefault) == preventDefault

\* if (preventDefault) event.preventDefault()
NextPrevented(prevented, preventDefault) == prevented \/ preventDefault

\* Mutant: the mode not looked at.
DiagnosticsEnabled_Always(env) == TRUE

\* typeof process !== 'undefined' && process.env?.NODE_ENV === 'development'
DiagnosticsEnabled(env) == env = "development"

\* The console calls of one turn of the loop: console.error for a caught
\* exception; console.warn when the handler is missing or not a function.
TurnDiagnostics(env, truthy, handler, called) ==
  IF ~DiagnosticsEnabled(env) \/ ~truthy THEN 0
  ELSE IF called THEN (IF handler = "throwing" THEN 1 ELSE 0)
  ELSE IF handler \in {"undefined", "value"} THEN 1
  ELSE 0

\* const { action, render } = customEvent.detail: a TypeError on null.
Destructures(detail) == detail.present

\* Mutant: the payload node is not looked at.
Accepts_IgnoresRender(detail) == detail.action # Undef /\ detail.action # ""

\* if (!action || !render) return
Accepts(detail) == detail.action # Undef /\ detail.action # "" /\ detail.render

\* ------------------------------------------------------------ the registry
RegistryState == [controllers |-> controllers, isListening |-> isListening,
                  docListener |-> docListener]

\* Mutant: a list that takes the same controller again.
SetAdd_Append(s, c) == Append(s, c)

\* Set.prototype.add / delete on an insertion-ordered set.
SetAdd(s, c) == IF c \in Range(s) THEN s ELSE Append(s, c)
\* Mutant: an array with splice(indexOf(c), 1), which takes the last
\* entry away when c is not there.
SetDelete_Splice(s, c) ==
  IF c \in Range(s) THEN SelectSeq(s, LAMBDA x : x # c)
  ELSE IF s = <<>> THEN s ELSE SubSeq(s, 1, Len(s) - 1)

SetDelete(s, c) == SelectSeq(s, LAMBDA x : x # c)

\* Mutant: the size test dropped from unregister.
ShouldUnsubscribe_IgnoreSize(cs, listening) == listening

\* this.controllers.size === 0 && this.isListening
ShouldUnsubscribe(cs, listening) == Len(cs) = 0 /\ listening

register(st, c) ==
  LET cs == SetAdd(st.controllers, c) IN
  IF ~st.isListening
    THEN [controllers |-> cs, isListening |-> TRUE, docListener |-> TRUE]
    ELSE [st EXCEPT !.controllers = cs]

\* Mutant: unregister that leaves the controller in the set.
unregister_KeepsController(st, c) == st

unregister(st, c) ==
  LET cs == SetDelete(st.controllers, c) IN
  IF ShouldUnsubscribe(cs, st.isListening)
    THEN [controllers |-> cs, isListening |-> FALSE, docListener |-> FALSE]
    ELSE [st EXCEPT !.controllers = cs]

\* A controller wired n times calls register (unregister) n times from its
\* connect (disconnect): each wrapper calls the one it replaced.
RECURSIVE RegisterTimes(_, _, _)
RegisterTimes(st, c, n) ==
  IF n = 0 THEN st ELSE register(RegisterTimes(st, c, n - 1), c)

RECURSIVE UnregisterTimes(_, _, _)
UnregisterTimes(st, c, n) ==
  IF n = 0 THEN st ELSE UnregisterTimes(unregister(st, c), c, n - 1)

getControllerCount == Len(controllers)
isListeningForEvents == isListening

SetRegistry(st) ==
  /\ controllers' = st.controllers
  /\ isListening' = st.isListening
  /\ docListener' = st.docListener

\* ----------------------------------------------------------- streamData
\* JavaScript values a read of the view gives or takes: strings, numbers,
\* booleans, parsed objects, null, undefined (an argument not given).
Value(t, v) == [type |-> t, v |-> v]
Text(s) == Value("string", s)
JsNull == Value("null", "")
NotGiven == Value("undefined", "")

\* Attribute names a handler asks for and the texts an attribute may hold.
AttrNames == {"x", "y"}
Texts == {"", "false", "0", "true", "1.5", "12px", "not-json", "{\"k\":1}", "null"}

\* What render.target refers to.
Targets == {"null", "document.body"}

\* The payload node (detail.render): its attributes (JsNull: not set),
\* its target property and its innerHTML.
Nodes ==
  [attrs : [AttrNames -> {Text(t) : t \in Texts} \cup {JsNull}],
   target : Targets,
   innerHTML : {""}]
NoNode == [attrs |-> [n \in AttrNames |-> JsNull], target |-> "null",
           innerHTML |-> ""]
NoResult == [op |-> "none", name |-> "", fallback |-> NotGiven,
             value |-> NotGiven, raised |-> FALSE]

\* render.getAttribute(attributeName): the string, or null.
getAttribute(nd, attributeName) == nd.attrs[attributeName]

\* a ?? b
Coalesce(a, b) == IF a \in {JsNull, NotGiven} THEN b ELSE a

\* Truthiness of what getAttribute gives: null and '' are falsy.
TruthyValue(value) == value # JsNull /\ value # Text("")

\* Mutant: value || fallback, an empty attribute replaced by the fallback.
get_OrFallback(nd, attributeName, fallback) ==
  LET value == getAttribute(nd, attributeName)
  IN IF TruthyValue(value) THEN value ELSE Coalesce(fallback, JsNull)

\* get(attributeName, fallback?)
get(nd, attributeName, fallback) ==
  LET value == getAttribute(nd, attributeName)
  IN IF value # JsNull THEN value ELSE Coalesce(fallback, JsNull)

\* getBoolean(attributeName)
getBoolean(nd, attributeName) ==
  LET value == getAttribute(nd, attributeName)
  IN value # JsNull /\ value # Text("false") /\ value # Text("0")

\* parseFloat(text): the longest numeric prefix, or NaN.
ParseFloat(text) ==
  CASE text \in {"0", "1.5"} -> Value("number", text)
    [] text = "12px" -> Value("number", "12")
    [] OTHER -> Value("number", "NaN")

\* getNumber(attributeName, fallback = 0)
getNumber(nd, attributeName, fallback) ==
  LET value == getAttribute(nd, attributeName)
      parsed == IF TruthyValue(value) THEN ParseFloat(value.v)
                ELSE Value("number", "NaN")
      dflt == IF fallback = NotGiven THEN Value("number", "0") ELSE fallback
  IN IF parsed.v = "NaN" THEN dflt ELSE parsed

\* JSON.parse(text): the value, or a SyntaxError.
JSONParse(text) ==
  CASE text \in {"true", "false"} -> Value("boolean", text)
    [] text \in {"0", "1.5"} -> Value("number", text)
    [] text = "null" -> JsNull
    [] text = "{\"k\":1}" -> Value("object", text)
    [] OTHER -> Value("SyntaxError", text)

\* Mutant: JSON.parse called without the try/catch around it.
getJSON_NoCatch(nd, attributeName, fallback) ==
  LET value == getAttribute(nd, attributeName)
      dflt == IF fallback = NotGiven THEN JsNull ELSE fallback
      parsed == JSONParse(value.v)
  IN IF ~TruthyValue(value) THEN [value |-> dflt, raised |-> FALSE]
     ELSE IF parsed.type = "SyntaxError" THEN [value |-> NotGiven, raised |-> TRUE]
     ELSE [value |-> parsed, raised |-> FALSE]

\* getJSON(attributeName, fallback = null): what it returns, whether it
\* throws.
getJSON(nd, attributeName, fallback) ==
  LET value == getAttribute(nd, attributeName)
      dflt == IF fallback = NotGiven THEN JsNull ELSE fallback
      parsed == JSONParse(value.v)
  IN IF ~TruthyValue(value) THEN [value |-> dflt, raised |-> FALSE]
     ELSE IF parsed.type = "SyntaxError" THEN [value |-> dflt, raised |-> FALSE]
     ELSE [value |-> parsed, raised |-> FALSE]

\* The own properties of streamData that hold a reference, and what each
\* refers to; the accessors close over render.
streamData(nd) ==
  [target |-> nd.target, event |-> "customEvent", reads |-> "render"]

\* ------------------------------------------------------------------- Init
\* The program's state after the module is loaded and the controllers are
\* constructed.
Init ==
  /\ streamActions \in StaticChoices
  /\ customStreamActions = [c \in Comps |-> NoMap]
  /\ wrapped = [c \in Comps |-> 0]
  /\ controllers = <<>>
  /\ isListening = FALSE
  /\ docListener = FALSE
  /\ isConnected = [c \in Comps |-> TRUE]
  /\ deactivated = [c \in Comps |-> FALSE]
  /\ pc = "idle"
  /\ event = NoEvent
  /\ cursor = 0
  /\ defaultPrevented = FALSE
  /\ invoked = NoCalls
  /\ threw = {}
  /\ sawPrevented = {}
  /\ escaped = FALSE
  /\ nodeEnv = "production"
  /\ diagnostics = 0
  /\ call = NoCall
  /\ node = NoNode
  /\ result = NoResult
  /\ stack = <<>>

\* ---------------------------------------------------------------- binding
\* Mutant: wiring that registers the controller at once.
wireStreamActions_RegistersAtOnce(c) ==
  /\ wrapped' = [wrapped EXCEPT ![c] = @ + 1]
  /\ SetRegistry(register(RegistryState, c))

\* wireStreamActions(controller, customActions?): the hooks are replaced;
\* the registry is fetched and left as it is.
wireStreamActions(c) ==
  /\ wrapped' = [wrapped EXCEPT ![c] = @ + 1]
  /\ UNCHANGED registry

\* One turn of the validation loop over Object.entries: typeof null is
\* 'object', so !config.method reads a property of null and throws.
EntryCheck(d) ==
  IF d.kind = "null" THEN "throws"
  ELSE IF d.kind \notin {"string", "object"} THEN "warns"
  ELSE IF d.kind = "object" /\ d.method = Undef THEN "warns"
  ELSE "passes"

\* The validation loop from entry i on: whether it throws, and the
\* console.warn calls made before it ends.
RECURSIVE Validate(_, _)
Validate(map, i) ==
  IF i > Len(KeyOrder) THEN [raised |-> FALSE, warnings |-> 0]
  ELSE LET d == map[KeyOrder[i]]
           rest == Validate(map, i + 1)
       IN IF d = NoEntry THEN rest
          ELSE IF EntryCheck(d) = "throws" THEN [raised |-> TRUE, warnings |-> 0]
          ELSE IF EntryCheck(d) = "warns"
            THEN [raised |-> rest.raised, warnings |-> rest.warnings + 1]
          ELSE rest

\* What a binding call does: whether it reaches wireStreamActions, whether
\* it throws, how many console.warn calls it makes.
Wires == [wired |-> TRUE, raised |-> FALSE, warnings |-> 0]
Validated(map) ==
  LET v == Validate(map, 1)
  IN [wired |-> ~v.raised, raised |-> v.raised, warnings |-> v.warnings]
\* Mutant: the hooks wrapped whether or not the class has a map.
Declined_Wires(env) ==
  [wired |-> TRUE, raised |-> FALSE,
   warnings |-> IF DiagnosticsEnabled(env) THEN 1 ELSE 0]

\* `else if (development) console.warn(...)`: no static streamActions.
Declined(env) ==
  [wired |-> FALSE, raised |-> FALSE,
   warnings |-> IF DiagnosticsEnabled(env) THEN 1 ELSE 0]

useStreamActions(sa, env) ==
  IF sa.defined
    THEN IF DiagnosticsEnabled(env) THEN Validated(sa.map) ELSE Wires
  ELSE Declined(env)

\* Mutant: the !actions test dropped, null passing as an object.
RejectsActions_TypeofOnly(arg) == arg.type \notin {"object", "null"}

\* !actions || typeof actions !== 'object'
RejectsActions(arg) == arg.type # "object"

useCustomStreamActions(arg, env) ==
  IF RejectsActions(arg) THEN Declined(env)
  ELSE IF DiagnosticsEnabled(env) THEN Validated(arg.map)
  ELSE Wires

\* The call returns (or throws) to the host: with rec the host stops to
\* look at what it did, else it goes on at once.
Returns(rec, op, c, arg, env, out, trace) ==
  IF rec
    THEN /\ pc' = "returned"
         /\ call' = [op |-> op, c |-> c, arg |-> arg, wired |-> out.wired,
                     size |-> Len(controllers), member |-> c \in Range(controllers),
                     trace |-> trace]
         /\ nodeEnv' = env
         /\ escaped' = out.raised
         /\ diagnostics' = out.warnings
    ELSE UNCHANGED <<pc, call, nodeEnv, escaped, diagnostics>>

UseStreamActions(c, env, rec) ==
  LET out == useStreamActions(streamActions, env)
  IN /\ pc = "idle"
     /\ wrapped[c] < MaxWrap
     /\ IF out.wired THEN wireStreamActions(c)
        ELSE UNCHANGED <<wrapped, registry>>
     /\ Returns(rec, "useStreamActions", c, NoArg, env, out, <<>>)
     /\ UNCHANGED <<streamActions, customStreamActions, isConnected,
                    deactivated, handling, view>>

\* Mutant: the map stored on the class, where every instance finds it.
StoreCustom_OnClass(stored, c, map) == [x \in Comps |-> map]

\* (controller as any)._customStreamActions = customActions
StoreCustom(stored, c, map) == [stored EXCEPT ![c] = map]

UseCustomStreamActions(c, arg, env, rec) ==
  LET out == useCustomStreamActions(arg, env)
  IN /\ pc = "idle"
     /\ wrapped[c] < MaxWrap
     /\ IF out.wired
          THEN /\ customStreamActions' = StoreCustom(customStreamActions, c, arg.map)
               /\ wireStreamActions(c)
          ELSE UNCHANGED <<customStreamActions, wrapped, registry>>
     /\ Returns(rec, "useCustomStreamActions", c, arg, env, out, <<>>)
     /\ UNCHANGED <<streamActions, isConnected, deactivated, handling, view>>

\* Mutant: the hook called without the ?. guard.
CallOriginal_Unguarded(c, hook) ==
  IF HasOwnHooks(c) THEN <<hook>> ELSE <<"TypeError">>

\* originalConnect?.() / originalDisconnect?.(): the hook runs if there is one.
CallOriginal(c, hook) == IF HasOwnHooks(c) THEN <<hook>> ELSE <<>>

\* Mutant: register before the hook below.
WrapConnect_RegisterFirst(inner) == <<"register">> \o inner

\* The wrapper's connect: the connect below it, then register.
WrapConnect(inner) == inner \o <<"register">>

\* Mutant: the hook below before unregister.
WrapDisconnect_OriginalFirst(inner) == inner \o <<"unregister">>

\* The wrapper's disconnect: unregister, then the disconnect below it.
WrapDisconnect(inner) == <<"unregister">> \o inner

\* Mutant: every wrapper calls the class's own connect instead of the
\* connect it replaced.
ConnectTrace_EachCallsOriginal(c, n) ==
  IF n = 0 THEN CallOriginal(c, "originalConnect")
  ELSE IF HasOwnHooks(c)
    THEN [i \in 1..(2 * n) |->
            IF i % 2 = 1 THEN "originalConnect" ELSE "register"]
    ELSE [i \in 1..n |-> "register"]

\* The calls a hook with n wrappers makes, in order.
RECURSIVE ConnectTrace(_, _)
ConnectTrace(c, n) ==
  IF n = 0 THEN CallOriginal(c, "originalConnect")
  ELSE WrapConnect(ConnectTrace(c, n - 1))

RECURSIVE DisconnectTrace(_, _)
DisconnectTrace(c, n) ==
  IF n = 0 THEN CallOriginal(c, "originalDisconnect")
  ELSE WrapDisconnect(DisconnectTrace(c, n - 1))

NoOutcome == [wired |-> FALSE, raised |-> FALSE, warnings |-> 0]

\* controller.connect(): the original hook, then one register per wrapper.
Connect(c, rec) ==
  /\ pc = "idle"
  /\ HasOwnHooks(c) \/ wrapped[c] > 0
  /\ SetRegistry(RegisterTimes(RegistryState, c, wrapped[c]))
  /\ deactivated' = [deactivated EXCEPT ![c] = FALSE]
  /\ Returns(rec, "connect", c, NoArg, "production", NoOutcome,
             ConnectTrace(c, wrapped[c]))
  /\ UNCHANGED <<config, isConnected, handling, view>>

\* controller.disconnect(): one unregister per wrapper, then the original.
Disconnect(c, rec) ==
  /\ pc = "idle"
  /\ HasOwnHooks(c) \/ wrapped[c] > 0
  /\ SetRegistry(UnregisterTimes(RegistryState, c, wrapped[c]))
  /\ deactivated' = [deactivated EXCEPT ![c] = wrapped[c] > 0]
  /\ Returns(rec, "disconnect", c, NoArg, "production", NoOutcome,
             DisconnectTrace(c, wrapped[c]))
  /\ UNCHANGED <<config, isConnected, handling, view>>

\* The host goes on after looking at a returned call.
CallReturn ==
  /\ pc = "returned"
  /\ pc' = "idle"
  /\ call' = NoCall
  /\ nodeEnv' = "production"
  /\ escaped' = FALSE
  /\ diagnostics' = 0
  /\ UNCHANGED <<config, registry, isConnected, deactivated, handling, view>>

\* The host page attaches or detaches a controller's element.
Attach(c) ==
  /\ pc = "idle"
  /\ ~isConnected[c]
  /\ isConnected' = [isConnected EXCEPT ![c] = TRUE]
  /\ UNCHANGED <<config, registry, deactivated, dispatch, view>>

Detach(c) ==
  /\ pc = "idle"
  /\ isConnected[c]
  /\ isConnected' = [isConnected EXCEPT ![c] = FALSE]
  /\ UNCHANGED <<config, registry, deactivated, dispatch, view>>

\* --------------------------------------------------------------- dispatch
\* document.dispatchEvent(event): handleStreamRender runs if it is a
\* listener; it returns at once on a detail it does not accept.
Dispatch(detail, env) ==
  /\ pc = "idle"
  /\ event' = detail
  /\ nodeEnv' = env
  /\ cursor' = 1
  /\ defaultPrevented' = FALSE
  /\ invoked' = NoCalls
  /\ threw' = {}
  /\ sawPrevented' = {}
  /\ escaped' = (docListener /\ ~Destructures(detail))
  /\ diagnostics' =
       IF docListener /\ Destructures(detail) /\ ~Accepts(detail)
          /\ DiagnosticsEnabled(env)
         THEN 1 ELSE 0
  /\ pc' = IF docListener /\ Destructures(detail) /\ Accepts(detail)
             /\ Len(controllers) > 0
             THEN "iterating" ELSE "done"
  /\ UNCHANGED <<config, registry, isConnected, deactivated, call, view>>

\* The hook calls a method of controller c makes, in order.
Effect(c, methodName) ==
  CASE methodName = "leave" -> <<[op |-> "disconnect", c |-> c]>>
    [] methodName = "dropOther" -> <<[op |-> "disconnect", c |-> Other(c)]>>
    [] methodName = "joinOther" -> <<[op |-> "connect", c |-> Other(c)]>>
    [] methodName = "rejoin" -> <<[op |-> "disconnect", c |-> c],
                                  [op |-> "connect", c |-> c]>>
    [] methodName = "rejoinOther" -> <<[op |-> "disconnect", c |-> Other(c)],
                                       [op |-> "connect", c |-> Other(c)]>>
    [] OTHER -> <<>>

\* The event a method dispatches from inside its call, if any.
Emits(methodName) == methodName = "emit"
EmittedEvent == Detail("b", TRUE, Undef)

\* controller.connect / controller.disconnect is a function: the class has
\* the hook, or wireStreamActions has put one there.
HookCallable(c) == HasOwnHooks(c) \/ wrapped[c] > 0

\* Where an iterator that stood at entry i of cs stands in cs2, the set
\* after a delete or an add: entries deleted at or before i move it back,
\* entries added come after every entry there was.
AdjustIndex(cs, cs2, i) ==
  i - Cardinality({j \in 1..i : cs[j] \notin Range(cs2)})

\* Mutant: a hook called from inside a handler edits the set only, the
\* subscription being left for the end of the dispatch.
RunHook_SetOnly(s, h) ==
  IF wrapped[h.c] = 0 THEN s
  ELSE [s EXCEPT !.reg.controllers =
                   IF h.op = "connect" THEN SetAdd(@, h.c) ELSE SetDelete(@, h.c)]

\* Mutant: a disconnect made from inside a handler marks the controller
\* and leaves its removal from the set for later.
RunHook_Deferred(s, h) ==
  [s EXCEPT !.deact[h.c] = (h.op = "disconnect" /\ wrapped[h.c] > 0)]

\* One hook call made by a handler: the registry, the iterator of the
\* dispatch in progress and those of the suspended ones, and the
\* controllers' deactivated marks, after it.
RunHook(s, h) ==
  LET reg2 == IF h.op = "connect"
                THEN RegisterTimes(s.reg, h.c, wrapped[h.c])
                ELSE UnregisterTimes(s.reg, h.c, wrapped[h.c])
      Adj(i) == AdjustIndex(s.reg.controllers, reg2.controllers, i)
  IN [reg |-> reg2,
      cur |-> Adj(s.cur),
      stack |-> [k \in DOMAIN s.stack |-> [s.stack[k] EXCEPT !.cur = Adj(@)]],
      deact |-> [s.deact EXCEPT ![h.c] = (h.op = "disconnect" /\ wrapped[h.c] > 0)]]

RECURSIVE RunHooks(_, _)
RunHooks(s, hooks) ==
  IF hooks = <<>> THEN s ELSE RunHooks(RunHook(s, Head(hooks)), Tail(hooks))

\* Mutant: the handler is looked up and called first, the default
\* suppressed after it returns.
SeenAtEntry_CallFirst(before, after) == before

\* event.defaultPrevented as the handler finds it in streamData.event:
\* event.preventDefault() (line 102) comes before handler.call (line 155).
SeenAtEntry(before, after) == after

\* Mutant: one iterator shared by all calls of the listener, the outer
\* dispatch going on where the nested one stopped.
ResumeCursor_Shared(outer, nested) == nested

\* The outer for...of has its own iterator: it goes on after the entry
\* whose handler has now returned.
ResumeCursor(outer, nested) == outer + 1

\* One turn of `for (const controller of this.controllers)`.
HandleController ==
  /\ pc = "iterating"
  /\ LET c == controllers[cursor]
         cfg == Lookup(Merge(StaticActions(streamActions),
                             customStreamActions[c]), event.action)
         methodName == MethodName(cfg)
         calls == Truthy(cfg) /\ CanInvoke(Handler(methodName), isConnected[c])
         hooks == IF calls THEN Effect(c, methodName) ELSE <<>>
         hookFails == \E i \in 1..Len(hooks) : ~HookCallable(hooks[i].c)
         handler == IF hookFails THEN "throwing" ELSE Handler(methodName)
         outcome == IF calls THEN CallOutcome(handler) ELSE "skipped"
         before == [reg |-> RegistryState, cur |-> cursor, stack |-> stack,
                    deact |-> deactivated]
         after == IF hookFails THEN before ELSE RunHooks(before, hooks)
         prevented == IF Truthy(cfg)
                        THEN NextPrevented(defaultPrevented, PreventDefault(cfg))
                        ELSE defaultPrevented
         calledNow == IF calls THEN [invoked EXCEPT ![c][methodName] = @ + 1]
                      ELSE invoked
         threwNow == IF outcome \in {"caught", "escaped"}
                       THEN threw \cup {c} ELSE threw
         sawNow == IF calls /\ SeenAtEntry(defaultPrevented, prevented)
                     THEN sawPrevented \cup {c} ELSE sawPrevented
         consoleNow == diagnostics
                         + TurnDiagnostics(nodeEnv, Truthy(cfg), handler, calls)
     IN
       /\ SetRegistry(after.reg)
       /\ deactivated' = after.deact
       /\ escaped' = (outcome = "escaped")
       /\ IF calls /\ Emits(methodName)
            THEN \* document.dispatchEvent inside the handler: this call of
                 \* the listener waits, a new one starts.
                 /\ Len(stack) < MaxNesting
                 /\ stack' = Append(after.stack,
                                    [event |-> event, cur |-> after.cur,
                                     defaultPrevented |-> prevented,
                                     invoked |-> calledNow, threw |-> threwNow,
                                     sawPrevented |-> sawNow,
                                     diagnostics |-> consoleNow])
                 /\ event' = EmittedEvent
                 /\ cursor' = 1
                 /\ defaultPrevented' = FALSE
                 /\ invoked' = NoCalls
                 /\ threw' = {}
                 /\ sawPrevented' = {}
                 /\ diagnostics' = 0
                 /\ pc' = IF docListener /\ Len(controllers) > 0
                            THEN "iterating" ELSE "done"
            ELSE /\ stack' = after.stack
                 /\ event' = event
                 /\ cursor' = after.cur + 1
                 /\ defaultPrevented' = prevented
                 /\ invoked' = calledNow
                 /\ threw' = threwNow
                 /\ sawPrevented' = sawNow
                 /\ diagnostics' = consoleNow
                 /\ pc' = IF outcome = "escaped"
                             \/ after.cur + 1 > Len(after.reg.controllers)
                            THEN "done" ELSE "iterating"
  /\ UNCHANGED <<config, isConnected, nodeEnv, call, node, result>>

\* The nested call of the listener has returned, and with it the handler
\* that dispatched the event: the suspended dispatch goes on.
NestedReturn ==
  /\ pc = "done"
  /\ stack # <<>>
  /\ LET top == stack[Len(stack)]
         next == ResumeCursor(top.cur, cursor)
     IN /\ stack' = SubSeq(stack, 1, Len(stack) - 1)
        /\ event' = top.event
        /\ cursor' = next
        /\ defaultPrevented' = top.defaultPrevented
        /\ invoked' = top.invoked
        /\ threw' = top.threw
        /\ sawPrevented' = top.sawPrevented
        /\ diagnostics' = top.diagnostics + diagnostics
        /\ escaped' = FALSE
        /\ pc' = IF next > Len(controllers) THEN "done" ELSE "iterating"
  /\ UNCHANGED <<config, registry, isConnected, deactivated, nodeEnv, call,
                 node, result>>

\* The dispatch is over; its outcome is forgotten.
DispatchReturn ==
  /\ pc = "done"
  /\ stack = <<>>
  /\ pc' = "idle"
  /\ event' = NoEvent
  /\ cursor' = 0
  /\ defaultPrevented' = FALSE
  /\ invoked' = NoCalls
  /\ threw' = {}
  /\ sawPrevented' = {}
  /\ escaped' = FALSE
  /\ nodeEnv' = "production"
  /\ diagnostics' = 0
  /\ UNCHANGED <<config, registry, isConnected, deactivated, call, view>>

\* ------------------------------------------------------ reads of the view
\* A handler reads the streamData it was handed; the registry is not
\* involved.
Reads(op, name, fallback, value, raised) ==
  /\ pc = "idle"
  /\ result' = [op |-> op, name |-> name, fallback |-> fallback,
                value |-> value, raised |-> raised]
  /\ UNCHANGED <<config, registry, isConnected, deactivated, dispatch, node,
                 stack>>

\* Fallbacks a handler passes.
Fallbacks == {NotGiven, Text("fb"), Text(""), Value("number", "7")}

Get(name, fallback) ==
  Reads("get", name, fallback, get(node, name, fallback), FALSE)

GetBoolean(name) ==
  Reads("getBoolean", name, NotGiven,
        Value("boolean", IF getBoolean(node, name) THEN "true" ELSE "false"),
        FALSE)

GetNumber(name, fallback) ==
  Reads("getNumber", name, fallback, getNumber(node, name, fallback), FALSE)

GetJSON(name, fallback) ==
  LET out == getJSON(node, name, fallback)
  IN Reads("getJSON", name, fallback, out.value, out.raised)

\* The handler looks at the reference-holding properties of its argument.
ReadStreamData ==
  Reads("streamData", "", NotGiven, streamData(node), FALSE)

Next ==
  \/ \E c \in Comps, env \in NodeEnvs : UseStreamActions(c, env, FALSE)
  \/ \E c \in Comps, arg \in CustomArgs, env \in NodeEnvs :
       UseCustomStreamActions(c, arg, env, FALSE)
  \/ \E c \in Comps : Connect(c, FALSE)
  \/ \E c \in Comps : Disconnect(c, FALSE)
  \/ \E c \in Comps : Attach(c)
  \/ \E c \in Comps : Detach(c)
  \/ \E detail \in EventChoices, env \in NodeEnvs : Dispatch(detail, env)
  \/ HandleController
  \/ DispatchReturn

Spec == Init /\ [][Next]_vars

\* The same program with the host looking at every binding and hook call
\* as it returns; elements stay attached; the events carry an action of
\* the maps, or no payload node.
CallEvents == { Detail(k, TRUE, Undef) : k \in Keys } \cup { Detail("a", FALSE, Undef) }

NextCalls ==
  \/ \E c \in Comps, env \in NodeEnvs : UseStreamActions(c, env, TRUE)
  \/ \E c \in Comps, arg \in CustomArgs, env \in NodeEnvs :
       UseCustomStreamActions(c, arg, env, TRUE)
  \/ \E c \in Comps : Connect(c, TRUE)
  \/ \E c \in Comps : Disconnect(c, TRUE)
  \/ CallReturn
  \/ \E detail \in CallEvents, env \in NodeEnvs : Dispatch(detail, env)
  \/ HandleController
  \/ DispatchReturn

SpecCalls == Init /\ [][NextCalls]_vars

\* What new StreamActionRegistry() holds: no controller, not listening.
FreshRegistry == [controllers |-> <<>>, isListening |-> FALSE, docListener |-> FALSE]

\* Mutant: a reset that hands back the instance there was.
resetInstance_KeepsInstance(st) == st

\* StreamActionRegistry.resetInstance(), which the test suite calls after
\* each case: the singleton is replaced by a fresh instance, which
\* getInstance() returns from then on.
resetInstance(st) == FreshRegistry

ResetInstance ==
  /\ pc = "idle"
  /\ SetRegistry(resetInstance(RegistryState))
  /\ Returns(TRUE, "resetInstance", Undef, NoArg, "production", NoOutcome, <<>>)
  /\ UNCHANGED <<config, isConnected, deactivated, handling, view>>

\* The registry over the life of a test suite: controllers wired,
\* connected and disconnected, the singleton reset between cases.
NextReset ==
  \/ \E c \in Comps : UseStreamActions(c, "production", FALSE)
  \/ \E c \in Comps : Connect(c, FALSE)
  \/ \E c \in Comps : Disconnect(c, FALSE)
  \/ ResetInstance
  \/ CallReturn

SpecReset == Init /\ [][NextReset]_vars

\* ------------------------------------------------- hooks that raise
\* The calls of a hook that are made when the call named raiser throws:
\* those before it and itself; the exception leaves every wrapper, none of
\* which catches it.
FirstAt(trace, x) ==
  IF \E i \in 1..Len(trace) : trace[i] = x
    THEN CHOOSE i \in 1..Len(trace) :
           trace[i] = x /\ \A j \in 1..(i - 1) : trace[j] # x
    ELSE Len(trace)

\* Mutant: the wrappers catch what the hook below them throws and go on.
Executed_Swallowed(trace, raiser) == trace

Executed(trace, raiser) == SubSeq(trace, 1, FirstAt(trace, raiser))

\* The registry after the register and unregister calls of a trace.
RECURSIVE RunTrace(_, _, _)
RunTrace(st, c, trace) ==
  IF trace = <<>> THEN st
  ELSE RunTrace(IF Head(trace) = "register" THEN register(st, c)
                ELSE IF Head(trace) = "unregister" THEN unregister(st, c)
                ELSE st,
                c, Tail(trace))

Raised == [wired |-> FALSE, raised |-> TRUE, warnings |-> 0]

\* controller.connect() where the class's own connect throws.
ConnectRaising(c) ==
  LET done == Executed(ConnectTrace(c, wrapped[c]), "originalConnect")
  IN /\ pc = "idle"
     /\ HasOwnHooks(c)
     /\ SetRegistry(RunTrace(RegistryState, c, done))
     /\ deactivated' =
          [deactivated EXCEPT ![c] = @ /\ "register" \notin Range(done)]
     /\ Returns(TRUE, "connect", c, NoArg, "production", Raised, done)
     /\ UNCHANGED <<config, isConnected, handling, view>>

\* controller.disconnect() where the class's own disconnect throws.
DisconnectRaising(c) ==
  LET done == Executed(DisconnectTrace(c, wrapped[c]), "originalDisconnect")
  IN /\ pc = "idle"
     /\ HasOwnHooks(c)
     /\ SetRegistry(RunTrace(RegistryState, c, done))
     /\ deactivated' =
          [deactivated EXCEPT ![c] = @ \/ "unregister" \in Range(done)]
     /\ Returns(TRUE, "disconnect", c, NoArg, "production", Raised, done)
     /\ UNCHANGED <<config, isConnected, handling, view>>

NextRaising ==
  \/ \E c \in Comps : UseStreamActions(c, "production", TRUE)
  \/ \E c \in Comps : Connect(c, TRUE)
  \/ \E c \in Comps : Disconnect(c, TRUE)
  \/ \E c \in Comps : ConnectRaising(c)
  \/ \E c \in Comps : DisconnectRaising(c)
  \/ CallReturn

SpecRaising == Init /\ [][NextRaising]_vars

\* A handler at work on the view of one payload node.
InitView ==
  /\ streamActions = [defined |-> FALSE, map |-> NoMap]
  /\ customStreamActions = [c \in Comps |-> NoMap]
  /\ wrapped = [c \in Comps |-> 0]
  /\ controllers = <<>>
  /\ isListening = FALSE
  /\ docListener = FALSE
  /\ isConnected = [c \in Comps |-> TRUE]
  /\ deactivated = [c \in Comps |-> FALSE]
  /\ pc = "idle"
  /\ event = NoEvent
  /\ cursor = 0
  /\ defaultPrevented = FALSE
  /\ invoked = NoCalls
  /\ threw = {}
  /\ sawPrevented = {}
  /\ escaped = FALSE
  /\ nodeEnv = "production"
  /\ diagnostics = 0
  /\ call = NoCall
  /\ node \in Nodes
  /\ result = NoResult
  /\ stack = <<>>

NextView ==
  \/ \E name \in AttrNames, fallback \in Fallbacks : Get(name, fallback)
  \/ \E name \in AttrNames : GetBoolean(name)
  \/ \E name \in AttrNames, fallback \in Fallbacks : GetNumber(name, fallback)
  \/ \E name \in AttrNames, fallback \in Fallbacks : GetJSON(name, fallback)
  \/ ReadStreamData

SpecView == InitView /\ [][NextView]_vars

\* ------------------------------------------------- handlers that re-enter
\* Controllers whose handlers call connect() and disconnect() while the
\* registry is iterating over the set.
HookingStatics ==
  { [defined |-> TRUE, map |-> MapOf(Str("leave"), Str("joinOther"))],
    [defined |-> TRUE, map |-> MapOf(Str("dropOther"), Str("m1"))] }

HookingCustoms ==
  { MapOf(Str("m1"), NoEntry),
    MapOf(Str("joinOther"), Str("dropOther")),
    MapOf(Str("dropOther"), Str("leave")),
    MapOf(Str("rejoinOther"), Str("rejoin")),
    MapOf(Str("emit"), Str("dropOther")) }

\* Controllers whose handler for "a" dispatches the event with action "b".
EmittingStatics ==
  { [defined |-> TRUE, map |-> MapOf(Str("emit"), Str("m1"))],
    [defined |-> TRUE, map |-> MapOf(Str("m1"), Str("m2"))] }

EmittingCustoms ==
  { MapOf(Str("emit"), Str("m2")),
    MapOf(Str("m2"), NoEntry),
    MapOf(Obj("emit", "false"), Str("boom")) }

PlainEvents == { Detail(k, TRUE, Undef) : k \in Keys }

InitOver(statics) ==
  /\ streamActions \in statics
  /\ customStreamActions = [c \in Comps |-> NoMap]
  /\ wrapped = [c \in Comps |-> 0]
  /\ controllers = <<>>
  /\ isListening = FALSE
  /\ docListener = FALSE
  /\ isConnected = [c \in Comps |-> TRUE]
  /\ deactivated = [c \in Comps |-> FALSE]
  /\ pc = "idle"
  /\ event = NoEvent
  /\ cursor = 0
  /\ defaultPrevented = FALSE
  /\ invoked = NoCalls
  /\ threw = {}
  /\ sawPrevented = {}
  /\ escaped = FALSE
  /\ nodeEnv = "production"
  /\ diagnostics = 0
  /\ call = NoCall
  /\ node = NoNode
  /\ result = NoResult
  /\ stack = <<>>

\* Handlers that dispatch: every listener call ends, no cap is needed.
NextOver(customs) ==
  \/ \E c \in Comps : UseStreamActions(c, "production", FALSE)
  \/ \E c \in Comps, m \in customs :
       UseCustomStreamActions(c, Arg("object", m), "production", FALSE)
  \/ \E c \in Comps : Connect(c, FALSE)
  \/ \E c \in Comps : Disconnect(c, FALSE)
  \/ \E detail \in PlainEvents : Dispatch(detail, "production")
  \/ HandleController
  \/ DispatchReturn

\* A handler that disconnects and connects a controller can keep the loop
\* going for ever; the runs are followed up to MaxCalls calls of a method.
CallsBelow(n) == \A c \in Comps, m \in Methods : invoked[c][m] < n

\* One turn of the loop, while the run is followed.
FollowedHandleController == CallsBelow(MaxCalls) /\ HandleController

InitHooking == InitOver(HookingStatics)
NextHooking ==
  \/ \E c \in Comps : UseStreamActions(c, "production", FALSE)
  \/ \E c \in Comps, m \in HookingCustoms :
       UseCustomStreamActions(c, Arg("object", m), "production", FALSE)
  \/ \E c \in Comps : Connect(c, FALSE)
  \/ \E c \in Comps : Disconnect(c, FALSE)
  \/ \E detail \in PlainEvents : Dispatch(detail, "production")
  \/ FollowedHandleController
  \/ NestedReturn
  \/ DispatchReturn
SpecHooking == InitHooking /\ [][NextHooking]_vars

InitEmitting == InitOver(EmittingStatics)
NextEmitting == NextOver(EmittingCustoms) \/ NestedReturn
SpecEmitting == InitEmitting /\ [][NextEmitting]_vars


\* ================================================================= claims
\* Vocabulary of the claims, stated on the data and not through the
\* operators the dispatch is built from.

\* The registry's active set.
Active == Range(controllers)

\* The name the listener reads from the event as its action.
ActionName == event.action

\* Action k is a key of controller c's override map, static map.
InOverride(c, k) == k \in Keys /\ customStreamActions[c][k] # NoEntry
InStatic(k) == k \in Keys /\ streamActions.defined /\ streamActions.map[k] # NoEntry
Declares(c, k) == InOverride(c, k) \/ InStatic(k)

\* The descriptor of action k for controller c: the override entry when
\* there is one, the static entry otherwise.
Descriptor(c, k) ==
  IF InOverride(c, k) THEN customStreamActions[c][k] ELSE streamActions.map[k]

\* An Action Descriptor: a bare handler name, or a record with one.
ValidDescriptor(d) ==
  d.kind = "string" \/ (d.kind = "object" /\ d.method # Undef)

\* No active controller maps action k to a malformed entry.
WellFormedFor(k) ==
  \A c \in Active : Declares(c, k) => ValidDescriptor(Descriptor(c, k))

\* A dispatch has ended, of an event the listener takes up and whose action
\* has only well-formed entries (malformed ones are the matter of C17, C18).
Dispatched ==
  /\ pc = "done" /\ docListener /\ event.render /\ ActionName \in EventNames
  /\ WellFormedFor(ActionName)

\* A descriptor's suppress flag: true for a bare name and for a record whose
\* preventDefault is true or omitted.
Suppresses(d) == d.kind = "string" \/ (d.kind = "object" /\ d.pd \in {"true", Undef})

\* The controllers carry a function under these names.
Callable(m) == Handler(m) \in {"function", "throwing"}

\* Controller c declares action k, names a callable method for it and its
\* element is attached: the dispatcher's conditions for a call.
Eligible(c, k) == Declares(c, k) /\ Callable(Descriptor(c, k).method) /\ isConnected[c]

\* During this event, controller c had method m called once and nothing else.
InvokedOnly(c, m) == \A x \in Methods : invoked[c][x] = IF x = m THEN 1 ELSE 0
NotInvoked(c) == \A x \in Methods : invoked[c][x] = 0

\* C1: in every state (so after every register / unregister, repeated
\* registers and unregisters of non-members included) isListeningForEvents()
\* is true iff getControllerCount() > 0, and handleStreamRender is a listener
\* of the document exactly when the flag is true.
C1_ListeningIffNonEmpty ==
  /\ isListeningForEvents <=> getControllerCount > 0
  /\ docListener <=> isListeningForEvents

\* One controller was unregistered while another stays registered.
C1_Witness ==
  /\ getControllerCount = 1
  /\ isListeningForEvents
  /\ \E c \in Comps : deactivated[c] /\ c \notin Active

\* C2: when a handler raised during a dispatch, the exception did not leave
\* the listener, and every active controller the dispatcher calls for this
\* action (the raising one included) had its method called exactly once.
C2_RaiseIsolated ==
  (pc = "done" /\ threw # {}) =>
    /\ ~escaped
    /\ \A c \in Active :
         Eligible(c, ActionName) => InvokedOnly(c, Descriptor(c, ActionName).method)

\* The controller visited first raised and the one after it was still called.
C2_Witness ==
  /\ pc = "done"
  /\ Len(controllers) = 2
  /\ threw = {controllers[1]}
  /\ invoked[controllers[1]]["boom"] = 1
  /\ \E m \in {"m1", "m2"} : InvokedOnly(controllers[2], m)

\* C3 (as claimed): after the dispatch of an event, every active controller
\* that declares the event's action and names a callable method had that
\* method called exactly once, these being the only conditions.
C3_Claim ==
  Dispatched =>
    \A c \in Active :
      (Declares(c, ActionName) /\ Callable(Descriptor(c, ActionName).method))
        => InvokedOnly(c, Descriptor(c, ActionName).method)

\* C4: for an active controller whose static and override maps both have
\* the event's action, the method of the static entry was not called and
\* the method of the override entry was called exactly once (the override
\* naming a callable method, the element attached).
C4_OverrideWins ==
  Dispatched =>
    \A c \in Active :
      (InStatic(ActionName) /\ InOverride(c, ActionName)) =>
        LET over == customStreamActions[c][ActionName].method
            stat == streamActions.map[ActionName].method
        IN /\ (stat \in Methods /\ stat # over) => invoked[c][stat] = 0
           /\ (Callable(over) /\ isConnected[c]) => InvokedOnly(c, over)

\* Static {a: m1 ...} and override {a: 'm2'}: m2 ran once, m1 never.
C4_Witness ==
  /\ Dispatched
  /\ ActionName = "a"
  /\ \E c \in Active :
       /\ streamActions.map["a"].method = "m1"
       /\ customStreamActions[c]["a"] = Str("m2")
       /\ InvokedOnly(c, "m2")

\* C5: each turn of the loop uses, for the controller at hand, the entry of
\* the right-biased merge as a whole: the override entry if the override
\* map has the action, the static entry otherwise.  The event is suppressed
\* by that entry's own flag and that entry's method is the one called.
C5_RightBiasedMerge ==
  [][(pc = "iterating" /\ ActionName \in Keys /\ WellFormedFor(ActionName)) =>
       LET c == controllers[cursor]
           d == Descriptor(c, ActionName)
       IN Declares(c, ActionName) =>
            /\ defaultPrevented' = (defaultPrevented \/ Suppresses(d))
            /\ Eligible(c, ActionName) =>
                 invoked' = [invoked EXCEPT ![c][d.method] = @ + 1]
            /\ ~Eligible(c, ActionName) => invoked' = invoked]_vars

\* Static {a: {method: m1, preventDefault: false}}, override {a: 'm2'}: m2
\* ran and the default is suppressed, the static flag not being inherited.
C5_Witness ==
  /\ Dispatched
  /\ ActionName = "a"
  /\ streamActions.map["a"] = Obj("m1", "false")
  /\ \E c \in Comps :
       /\ controllers = <<c>>
       /\ customStreamActions[c]["a"] = Str("m2")
       /\ InvokedOnly(c, "m2")
       /\ defaultPrevented

\* The active controllers that declare the event's action.
Matching == {c \in Active : Declares(c, ActionName)}

\* C6: with a single matching controller, after the dispatch the default is
\* suppressed iff its descriptor is a bare name or a record whose
\* preventDefault is true or omitted; with preventDefault false the default
\* is not suppressed and the handler was still called once.
C6_SingleSuppression ==
  (Dispatched /\ Cardinality(Matching) = 1) =>
    \A c \in Matching :
      LET d == Descriptor(c, ActionName) IN
      /\ defaultPrevented <=>
           \/ d.kind = "string"
           \/ d.kind = "object" /\ d.pd = "true"
           \/ d.kind = "object" /\ d.pd = Undef
      /\ (d.kind = "object" /\ d.pd = "false") =>
           /\ ~defaultPrevented
           /\ Eligible(c, ActionName) => InvokedOnly(c, d.method)

\* {method, preventDefault: false}: handler called once, default kept.
C6_Witness ==
  /\ Dispatched
  /\ \E c \in Comps :
       /\ Matching = {c}
       /\ Descriptor(c, ActionName).pd = "false"
       /\ InvokedOnly(c, Descriptor(c, ActionName).method)
       /\ ~defaultPrevented

\* C7: with several matching controllers, after the dispatch the default is
\* suppressed iff at least one of their descriptors has the suppress flag.
C7_AnySuppresses ==
  (Dispatched /\ Cardinality(Matching) >= 2) =>
    (defaultPrevented <=>
       \E c \in Matching : Suppresses(Descriptor(c, ActionName)))

\* A suppressing controller was handled first, a preventDefault: false one
\* after it, and the default stayed suppressed.
C7_Witness ==
  /\ Dispatched
  /\ Len(controllers) = 2
  /\ Matching = Active
  /\ Suppresses(Descriptor(controllers[1], ActionName))
  /\ ~Suppresses(Descriptor(controllers[2], ActionName))
  /\ defaultPrevented

\* C8 (as claimed): an action name that is a key of no active controller's
\* static or override map ends with no handler called and the default not
\* suppressed.
C8_Claim ==
  (Dispatched /\ Matching = {}) =>
    /\ \A c \in Comps : NotInvoked(c)
    /\ ~defaultPrevented

\* C9: a controller whose wrapped disconnect ran, and whose connect has not
\* run since, gets no call from any event.
C9_DeactivatedSilent ==
  \A c \in Comps : deactivated[c] => NotInvoked(c)

\* A deactivated controller declares the action of an event that reached
\* another, still active, controller.
C9_Witness ==
  /\ Dispatched
  /\ \E c \in Comps, d \in Active :
       /\ deactivated[c]
       /\ Declares(c, ActionName)
       /\ ~NotInvoked(d)

\* The action attribute of the newStream node of an event of the shape
\* {detail: {newStream: node}}.
StreamAction == event.newStream

\* C10 (as claimed): an event {detail: {newStream: node}} is dispatched under
\* node's action attribute: an active controller that declares it with a
\* callable method (element attached) had the method called exactly once,
\* and the default is suppressed if its descriptor says so.
C10_Claim ==
  (pc = "done" /\ StreamAction \in Keys) =>
    \A c \in Active :
      Eligible(c, StreamAction) =>
        /\ InvokedOnly(c, Descriptor(c, StreamAction).method)
        /\ Suppresses(Descriptor(c, StreamAction)) => defaultPrevented

\* ------------------------------------------------- events not taken up
\* The step in which the document dispatches an event.
DispatchStep == pc = "idle" /\ pc' \in {"iterating", "done"}

\* C11: when an event whose detail has no payload node reaches the listener
\* in development mode, the dispatch ends at once with no controller
\* consulted, no method called, the default not prevented, exactly one
\* console call however many controllers are registered, and the registry
\* (controllers, isListening, the document listener) as it was.
C11_NoPayloadNode ==
  [][(DispatchStep /\ docListener /\ event'.present /\ ~event'.render
        /\ DiagnosticsEnabled(nodeEnv')) =>
       /\ pc' = "done"
       /\ invoked' = NoCalls
       /\ ~defaultPrevented'
       /\ ~escaped'
       /\ diagnostics' = 1
       /\ controllers' = controllers
       /\ isListening' = isListening
       /\ docListener' = docListener]_vars

\* Two controllers registered, an event {action: 'a'} without render, in
\* development mode: one warning, the iterator never moved.
C11_Witness ==
  /\ pc = "done"
  /\ docListener
  /\ Len(controllers) = 2
  /\ event.present /\ ~event.render /\ event.action = "a"
  /\ DiagnosticsEnabled(nodeEnv)
  /\ diagnostics = 1
  /\ cursor = 1
  /\ \E c \in Active : Eligible(c, "a")

\* C12 (as claimed): an event with a payload node and an empty or absent
\* action is ignored silently: no method called, the default not
\* prevented, no console call in any mode.
C12_Claim ==
  (pc = "done" /\ docListener /\ event.present /\ event.render
     /\ event.action \in {Undef, ""}) =>
    /\ invoked = NoCalls
    /\ ~defaultPrevented
    /\ diagnostics = 0

\* C20 (as claimed): no exception leaves handleStreamRender, whatever the
\* event (detail null included) and whatever the registered controllers.
C20_Claim == pc = "done" => ~escaped

\* ------------------------------------------------- binding and hooks
\* A call of the named kind has just returned to the host.
Returned(op) == pc = "returned" /\ call.op = op

\* How many times x occurs in the trace of the returned call.
Count(tr, x) == Cardinality({i \in 1..Len(tr) : tr[i] = x})

\* C13: register is idempotent.  A connect of a controller that was already
\* registered leaves getControllerCount() as it was and the registry
\* listening; no controller is held twice, so an event calls a method at
\* most once per controller, and one unregister leaves the controller out.
C13_RegisterIdempotent ==
  /\ (Returned("connect") /\ call.member /\ wrapped[call.c] > 0) =>
       /\ getControllerCount = call.size
       /\ isListeningForEvents /\ docListener
  /\ Cardinality(Active) = getControllerCount
  /\ \A c \in Active :
       /\ register(RegistryState, c) = RegistryState
       /\ c \notin Range(unregister(RegistryState, c).controllers)
  /\ pc = "done" => \A c \in Comps, m \in Methods : invoked[c][m] <= 1

\* A controller wired twice (two registers per connect) is registered, and
\* an event it handles has called its method once.
C13_Witness ==
  /\ pc = "done"
  /\ \E c \in Active :
       /\ wrapped[c] = 2
       /\ Eligible(c, ActionName)
       /\ InvokedOnly(c, Descriptor(c, ActionName).method)

\* C14: for a wired controller with hooks of its own, a connect runs the
\* original connect exactly once, before every register, and ends with the
\* controller registered; a disconnect runs every unregister first, then the
\* original disconnect exactly once, the controller no longer registered.
C14_HookOrder ==
  /\ (Returned("connect") /\ wrapped[call.c] > 0 /\ HasOwnHooks(call.c)) =>
       /\ Count(call.trace, "originalConnect") = 1
       /\ call.trace[1] = "originalConnect"
       /\ \A i \in 2..Len(call.trace) : call.trace[i] = "register"
       /\ Len(call.trace) = wrapped[call.c] + 1
       /\ call.c \in Active
  /\ (Returned("disconnect") /\ wrapped[call.c] > 0 /\ HasOwnHooks(call.c)) =>
       /\ Count(call.trace, "originalDisconnect") = 1
       /\ call.trace[Len(call.trace)] = "originalDisconnect"
       /\ \A i \in 1..(Len(call.trace) - 1) : call.trace[i] = "unregister"
       /\ Len(call.trace) = wrapped[call.c] + 1
       /\ call.c \notin Active

\* The disconnect of a registered, wired controller with its own hooks.
C14_Witness ==
  /\ Returned("disconnect")
  /\ HasOwnHooks(call.c)
  /\ wrapped[call.c] = 1
  /\ call.member
  /\ call.trace = <<"unregister", "originalDisconnect">>

\* A map every entry of which passes the validation loop without a throw.
NoNullEntry(map) == \A k \in Keys : map[k] # Null

\* C15: for a controller without connect and disconnect of its own, the
\* binding calls do not raise and wire it; its connect then only registers
\* and its disconnect only unregisters, neither raising.
C15_NoOriginalHooks ==
  /\ (Returned("useStreamActions") /\ ~HasOwnHooks(call.c)
        /\ streamActions.defined /\ NoNullEntry(streamActions.map)) =>
       ~escaped /\ call.wired /\ wrapped[call.c] > 0
  /\ (Returned("useCustomStreamActions") /\ ~HasOwnHooks(call.c)
        /\ ~RejectsActions(call.arg) /\ NoNullEntry(call.arg.map)) =>
       ~escaped /\ call.wired /\ wrapped[call.c] > 0
  /\ (Returned("connect") /\ ~HasOwnHooks(call.c)) =>
       /\ ~escaped
       /\ \A i \in 1..Len(call.trace) : call.trace[i] = "register"
       /\ Len(call.trace) = wrapped[call.c]
       /\ call.c \in Active
       /\ getControllerCount = call.size + (IF call.member THEN 0 ELSE 1)
  /\ (Returned("disconnect") /\ ~HasOwnHooks(call.c)) =>
       /\ ~escaped
       /\ \A i \in 1..Len(call.trace) : call.trace[i] = "unregister"
       /\ Len(call.trace) = wrapped[call.c]
       /\ call.c \notin Active
       /\ getControllerCount = call.size - (IF call.member THEN 1 ELSE 0)

\* The hookless controller, wired once and registered, disconnects.
C15_Witness ==
  /\ Returned("disconnect")
  /\ ~HasOwnHooks(call.c)
  /\ wrapped[call.c] = 1
  /\ call.member
  /\ call.trace = <<"unregister">>
  /\ call.c \notin Active

\* C16: useCustomStreamActions called with a value that is no object (null,
\* undefined, a string, a number) returns without raising, makes one
\* console call in development mode and none otherwise, and binds nothing:
\* no wrapper added, no override map stored, the registry as it was.
C16_InvalidActionsArgument ==
  [][(pc = "idle" /\ pc' = "returned"
        /\ call'.op = "useCustomStreamActions" /\ call'.arg.type \in NonObjects) =>
       /\ ~escaped'
       /\ diagnostics' = (IF DiagnosticsEnabled(nodeEnv') THEN 1 ELSE 0)
       /\ wrapped' = wrapped
       /\ customStreamActions' = customStreamActions
       /\ controllers' = controllers
       /\ isListening' = isListening
       /\ docListener' = docListener]_vars

\* useCustomStreamActions(controller, null) in development mode, on a
\* controller not yet wired: one warning, still not wired.
C16_Witness ==
  /\ Returned("useCustomStreamActions")
  /\ call.arg.type = "null"
  /\ DiagnosticsEnabled(nodeEnv)
  /\ diagnostics = 1
  /\ ~escaped
  /\ wrapped[call.c] = 0
  /\ customStreamActions[call.c] = NoMap

\* A map with an entry that is no Action Descriptor.
HasInvalidEntry(map) ==
  \E k \in Keys : map[k] # NoEntry /\ ~ValidDescriptor(map[k])

\* C17 (as claimed): whatever invalid entries (a number, null, an object
\* without method) a static or override map holds, the binding call does not
\* raise and completes the wiring, reporting in development mode; and no
\* dispatch raises.
C17_Claim ==
  /\ (Returned("useStreamActions") /\ streamActions.defined) =>
       /\ ~escaped /\ call.wired
       /\ (DiagnosticsEnabled(nodeEnv) /\ HasInvalidEntry(streamActions.map))
            => diagnostics > 0
  /\ (Returned("useCustomStreamActions") /\ call.arg.type = "object") =>
       /\ ~escaped /\ call.wired
       /\ (DiagnosticsEnabled(nodeEnv) /\ HasInvalidEntry(call.arg.map))
            => diagnostics > 0
  /\ pc = "done" => ~escaped

\* Controller c's entry for action k is there and is malformed.
Malformed(c, k) == Declares(c, k) /\ ~ValidDescriptor(Descriptor(c, k))

\* C18 (as claimed): a malformed entry is skipped: when its action is
\* dispatched the controller has no method called and is not a cause of the
\* default being prevented (some well-formed entry of a registered
\* controller is).
C18_Claim ==
  (pc = "done" /\ docListener /\ event.render /\ ActionName \in Keys) =>
    /\ \A c \in Active : Malformed(c, ActionName) => NotInvoked(c)
    /\ defaultPrevented =>
         \E c \in Active :
           /\ Declares(c, ActionName)
           /\ ValidDescriptor(Descriptor(c, ActionName))
           /\ Suppresses(Descriptor(c, ActionName))

\* C19 (as claimed): the mode changes console calls only: a binding call
\* raises, and wires, exactly as the same call does in production mode.
C19_Claim ==
  /\ Returned("useStreamActions") =>
       /\ escaped = useStreamActions(streamActions, "production").raised
       /\ call.wired = useStreamActions(streamActions, "production").wired
  /\ Returned("useCustomStreamActions") =>
       /\ escaped = useCustomStreamActions(call.arg, "production").raised
       /\ call.wired = useCustomStreamActions(call.arg, "production").wired

\* ------------------------------------------- missing and non-callable
\* Controller c's descriptor for action k names a property that is absent
\* from the controller or is no function.
NamesNoMethod(c, k) ==
  /\ Declares(c, k)
  /\ ValidDescriptor(Descriptor(c, k))
  /\ ~Callable(Descriptor(c, k).method)

\* C21: after a dispatch, a registered controller whose descriptor for the
\* event's action names an absent or non-callable property had nothing
\* called, no exception left the listener, in development mode there is a
\* console call for each such controller, and every other registered
\* controller with a callable method for the action (element attached) had
\* it called exactly once.
C21_MissingMethodSkipped ==
  (Dispatched /\ \E c \in Active : NamesNoMethod(c, ActionName)) =>
    /\ ~escaped
    /\ \A c \in Active : NamesNoMethod(c, ActionName) => NotInvoked(c)
    /\ DiagnosticsEnabled(nodeEnv) =>
         diagnostics >= Cardinality({c \in Active : NamesNoMethod(c, ActionName)})
    /\ \A c \in Active :
         Eligible(c, ActionName) => InvokedOnly(c, Descriptor(c, ActionName).method)

\* The first controller names a property that is no function, the second
\* a method: one warning, the method called once.
C21_Witness ==
  /\ Dispatched
  /\ DiagnosticsEnabled(nodeEnv)
  /\ Len(controllers) = 2
  /\ NamesNoMethod(controllers[1], ActionName)
  /\ Descriptor(controllers[1], ActionName).method = "prop"
  /\ Eligible(controllers[2], ActionName)
  /\ InvokedOnly(controllers[2], Descriptor(controllers[2], ActionName).method)
  /\ diagnostics = 1

\* ------------------------------------------- binding before activation
\* C22: a binding call (useStreamActions, useCustomStreamActions) leaves
\* the registry's controllers and listening flag as they were; a controller
\* enters the set only in a connect of its own, wired; and nothing is
\* called on a controller that is not in the set.
C22_BindingBeforeActivation ==
  [][/\ (pc = "idle" /\ pc' = "returned"
           /\ call'.op \in {"useStreamActions", "useCustomStreamActions"}) =>
          /\ controllers' = controllers
          /\ isListening' = isListening
          /\ docListener' = docListener
     /\ \A c \in Comps :
          (c \notin Range(controllers) /\ c \in Range(controllers')) =>
            /\ call'.op = "connect" /\ call'.c = c
            /\ wrapped[c] > 0
     /\ \A c \in Comps :
          c \notin Range(controllers) => invoked'[c] = NoCalls[c]]_vars

\* An event dispatched between the binding of a controller and its first
\* connect: the other controller's method ran, this one's did not.
C22_Witness ==
  /\ pc = "done"
  /\ docListener
  /\ ActionName \in Keys
  /\ \E c \in Comps \ Active :
       /\ wrapped[c] > 0
       /\ ~deactivated[c]
       /\ Declares(c, ActionName)
       /\ Callable(Descriptor(c, ActionName).method)
       /\ NotInvoked(c)
  /\ \E c \in Active : ~NotInvoked(c)

\* -------------------------------------------------------- diagnostics
\* A call is in progress or has just ended, its console calls counted.
InCall == pc \in {"iterating", "done", "returned"}

\* An event that reached the listener without a payload node.
MalformedEnvelope ==
  pc = "done" /\ docListener /\ event.present /\ ~event.render

\* Registered controllers whose method for the event's action raised.
Raisers ==
  {c \in Active : Eligible(c, ActionName) /\ Descriptor(c, ActionName).method = "boom"}

\* C25: in production mode no call makes a console call: binding without a
\* static map, a non-object or malformed actions argument, an event
\* without payload node, a missing or non-callable method and a raising
\* handler are all silent.
C25_ProductionSilent ==
  (InCall /\ nodeEnv = "production") => diagnostics = 0

\* A dispatch in production mode in which the first controller names a
\* property that is absent and the second a method: no console call.
C25_Witness ==
  /\ Dispatched
  /\ nodeEnv = "production"
  /\ Len(controllers) = 2
  /\ NamesNoMethod(controllers[1], ActionName)
  /\ Descriptor(controllers[1], ActionName).method = "nope"
  /\ ~NotInvoked(controllers[2])
  /\ diagnostics = 0

\* C26 (as claimed): in every mode other than production (development,
\* test) each configuration error, event without payload node, missing or
\* non-callable method and raising handler makes its console call.
C26_Claim ==
  nodeEnv # "production" =>
    /\ (Returned("useStreamActions") /\ ~streamActions.defined) => diagnostics >= 1
    /\ (Returned("useStreamActions") /\ streamActions.defined
          /\ HasInvalidEntry(streamActions.map) /\ NoNullEntry(streamActions.map))
         => diagnostics >= 1
    /\ (Returned("useCustomStreamActions") /\ RejectsActions(call.arg))
         => diagnostics >= 1
    /\ (Returned("useCustomStreamActions") /\ ~RejectsActions(call.arg)
          /\ HasInvalidEntry(call.arg.map) /\ NoNullEntry(call.arg.map))
         => diagnostics >= 1
    /\ MalformedEnvelope => diagnostics >= 1
    /\ Dispatched =>
         diagnostics >= Cardinality({c \in Active : NamesNoMethod(c, ActionName)})
                          + Cardinality(Raisers)

\* ------------------------------------------------------ the handler's view
\* The attribute the last read asked for, as the node holds it.
Asked == node.attrs[result.name]

\* The fallback the last read is to give: the one passed, none otherwise.
GivenFallback == IF result.fallback = NotGiven THEN JsNull ELSE result.fallback

\* The payload node of the event, as a reference.
PayloadNode == "render"

\* C27 (as claimed): the argument handed to a handler has a property that
\* is the payload node itself (streamElement in the tests), holds the
\* original event, and its accessors read that payload node.
C27_Claim ==
  result.op = "streamData" =>
    /\ \E f \in DOMAIN result.value \ {"event", "reads"} :
         result.value[f] = PayloadNode
    /\ result.value.event = "customEvent"
    /\ result.value.reads = PayloadNode

\* Attribute texts that are well-formed JSON.
WellFormedJSON == {"true", "false", "0", "1.5", "null", "{\"k\":1}"}

\* C28: getJSON(name, fallback) never raises; it returns the parsed value
\* when the attribute holds well-formed JSON and exactly the fallback
\* passed (null when none is passed) when the attribute is absent or its
\* text is malformed.
C28_GetJSONFallsBack ==
  result.op = "getJSON" =>
    /\ ~result.raised
    /\ (Asked # JsNull /\ Asked.v \in WellFormedJSON) =>
         /\ result.value = JSONParse(Asked.v)
         /\ result.value.type # "SyntaxError"
    /\ (Asked = JsNull \/ Asked.v \notin WellFormedJSON) =>
         result.value = GivenFallback

\* getJSON('x', 'fb') on a node whose x is 'not-json' gave 'fb'.
C28_Witness ==
  /\ result.op = "getJSON"
  /\ Asked = Text("not-json")
  /\ result.fallback = Text("fb")
  /\ result.value = Text("fb")
  /\ ~result.raised

\* C29: getBoolean(name) is true iff the attribute is present and is
\* neither "false" nor "0" (so true for "" and any other text, false when
\* absent); get(name, fallback) returns the attribute's string when it is
\* present, the empty string included, and the fallback (null when none is
\* passed) only when it is absent.
C29_GetAndGetBoolean ==
  /\ result.op = "getBoolean" =>
       (result.value = Value("boolean", "true")
          <=> (Asked # JsNull /\ Asked.v \notin {"false", "0"}))
  /\ result.op = "get" =>
       result.value = (IF Asked # JsNull THEN Asked ELSE GivenFallback)

\* get('x', 'fb') on a node whose x is the empty string gave ''.
C29_Witness ==
  /\ result.op = "get"
  /\ Asked = Text("")
  /\ result.fallback = Text("fb")
  /\ result.value = Text("")

Hooking == {"leave", "dropOther", "joinOther", "rejoin", "rejoinOther"}
Hooked == \E c \in Comps, m \in Hooking : invoked[c][m] > 0

\* C23: when a handler connects or disconnects a controller (its own, one
\* the loop has visited, or one it has not reached yet) while the dispatch
\* iterates, the dispatch does not raise, its iterator stays on an entry of
\* the set, and the subscription flag is true exactly when the set is
\* non-empty, during and after the dispatch.
C23_HookingHandlersKeepFlag ==
  (pc \in {"iterating", "done"} /\ Hooked) =>
    /\ ~escaped
    /\ pc = "iterating" => cursor \in 1..Len(controllers)
    /\ isListening <=> Len(controllers) > 0
    /\ docListener <=> isListening

\* The first controller's handler has disconnected the second, which
\* declares a handler for the event and was not reached; the dispatch is
\* over and the first is still subscribed.
C23_Witness ==
  /\ pc = "done"
  /\ invoked["c1"]["dropOther"] = 1
  /\ controllers = <<"c1">>
  /\ deactivated["c2"]
  /\ Eligible("c2", event.action)
  /\ \A m \in Methods : invoked["c2"][m] = 0
  /\ isListening

\* The only controller's handler has disconnected it: the set is empty and
\* the listener is gone when its dispatch ends.
C23_WitnessLeave ==
  /\ pc = "done"
  /\ \E c \in Comps : invoked[c]["leave"] = 1
  /\ controllers = <<>>
  /\ ~isListening

\* A handler has connected a controller that was not in the set, and the
\* loop has reached it.
C23_WitnessJoin ==
  /\ pc = "done"
  /\ \E c \in Comps : /\ invoked[c]["joinOther"] = 1
                      /\ controllers = <<c, Other(c)>>
                      /\ \E m \in Methods : invoked[Other(c)][m] = 1

\* ------------------------------------------------------------------ C24
\* Each member of the active set has been called for the event of the
\* listener call in progress exactly once under the method its descriptor
\* names, if it has a callable one, and not at all otherwise.
Served ==
  \A c \in Active, m \in Methods :
    invoked[c][m] =
      IF Eligible(c, event.action) /\ Descriptor(c, event.action).method = m
        THEN 1 ELSE 0

\* A step of a dispatch, from the event's arrival to the listener's return.
InDispatch == pc # "idle" \/ pc' # "idle"

\* C24: when a handler dispatches a new event from inside its call, the
\* nested dispatch runs over the whole active set and the outer one then
\* goes on with the controllers after the emitting one: whenever a call of
\* the listener ends, nested or outer, every active controller matching its
\* event has been invoked exactly once for it; and no step of a dispatch
\* adds or removes a member or changes the subscription flag.
C24_NestedDispatch ==
  [][InDispatch => /\ UNCHANGED registry
                   /\ (pc = "done" => Served)']_vars

\* The first controller's handler dispatched an event; that dispatch is
\* over, the outer one went on to the second controller, and has ended.
C24_Witness ==
  /\ pc = "done"
  /\ stack = <<>>
  /\ controllers = <<"c2", "c1">>
  /\ invoked["c2"]["emit"] = 1
  /\ \E m \in Methods \ {"emit"} : invoked["c1"][m] = 1

\* The nested dispatch has called both controllers and ended while the
\* outer one, stopped at its first controller, waits.
C24_WitnessNested ==
  /\ pc = "done"
  /\ Len(stack) = 1
  /\ stack[1].cur = 1
  /\ Len(controllers) = 2
  /\ event = EmittedEvent
  /\ \A c \in Comps : \E m \in Methods : invoked[c][m] = 1

\* ------------------------------------------------------------------ C31
\* The loop of the dispatch in progress has finished with controller c.
Visited(c) ==
  \/ pc = "done"
  \/ pc = "iterating" /\ \E i \in 1..(cursor - 1) : controllers[i] = c

\* C31: in the turn of a controller whose descriptor has the suppress flag,
\* the default is prevented before the handler is looked up and called: a
\* handler that was called was entered with the event already
\* default-prevented, and the event is default-prevented after the turn
\* also when the descriptor names an absent or non-callable property.
C31_SuppressBeforeCall ==
  (pc \in {"iterating", "done"} /\ docListener /\ event.render
     /\ ActionName \in Keys) =>
    \A c \in Active :
      (Declares(c, ActionName) /\ ValidDescriptor(Descriptor(c, ActionName))
         /\ Suppresses(Descriptor(c, ActionName))) =>
        LET d == Descriptor(c, ActionName) IN
        /\ (Callable(d.method) /\ invoked[c][d.method] > 0) => c \in sawPrevented
        /\ (Visited(c) /\ NamesNoMethod(c, ActionName)) => defaultPrevented

\* The first controller's descriptor does not suppress; the second's does,
\* and its handler, the first to suppress, found the default prevented.
C31_Witness ==
  /\ Dispatched
  /\ Len(controllers) = 2
  /\ Declares(controllers[1], ActionName)
  /\ ~Suppresses(Descriptor(controllers[1], ActionName))
  /\ Suppresses(Descriptor(controllers[2], ActionName))
  /\ InvokedOnly(controllers[2], Descriptor(controllers[2], ActionName).method)
  /\ sawPrevented = {controllers[2]}

\* The only controller's descriptor suppresses and names a property the
\* controller does not have: nothing was called, the default is prevented.
C31_WitnessNoMethod ==
  /\ Dispatched
  /\ \E c \in Comps :
       /\ controllers = <<c>>
       /\ NamesNoMethod(c, ActionName)
       /\ Suppresses(Descriptor(c, ActionName))
       /\ NotInvoked(c)
       /\ defaultPrevented

C33_NoStaticMapBindsNothing ==
  [][/\ (pc = "idle" /\ pc' = "returned" /\ call'.op = "useStreamActions"
           /\ ~streamActions.defined) =>
          /\ ~call'.wired
          /\ wrapped' = wrapped
          /\ UNCHANGED registry
          /\ ~escaped'
          /\ diagnostics' = IF DiagnosticsEnabled(nodeEnv') THEN 1 ELSE 0
     /\ (pc = "idle" /\ pc' = "returned" /\ call'.op = "connect"
           /\ wrapped[call'.c] = 0) =>
          UNCHANGED registry]_vars

\* useStreamActions has returned in development mode for a class without
\* a map: one warning, the controller's hooks as they were.
C33_Witness ==
  /\ Returned("useStreamActions")
  /\ ~streamActions.defined
  /\ DiagnosticsEnabled(nodeEnv)
  /\ diagnostics = 1
  /\ ~call.wired
  /\ wrapped[call.c] = 0
  /\ call.c \notin Active

\* The connect of such a controller has returned: the set is still empty
\* and nothing is subscribed.
C33_WitnessConnect ==
  /\ Returned("connect")
  /\ ~streamActions.defined
  /\ wrapped[call.c] = 0
  /\ controllers = <<>>
  /\ ~isListening

\* ------------------------------------------------------------------ C34
\* C34 (as claimed): the dispatch of one event calls the handler of each
\* controller at most once, also when handlers disconnect and connect
\* controllers while the loop runs (and so the loop ends after at most one
\* turn per controller).
C34_Claim ==
  pc \in {"iterating", "done"} =>
    \A c \in Comps, m \in Methods : invoked[c][m] <= 1

\* Some handler of the dispatch has called the named method.
Ran(m) == \E c \in Comps : invoked[c][m] > 0

\* The same for dispatches in which no controller is connected after a
\* disconnect made in that dispatch (controllers may still leave, and new
\* ones join): this much holds.
C34_WithoutRejoin ==
  (pc \in {"iterating", "done"} /\ stack = <<>>
     /\ ~Ran("rejoin") /\ ~Ran("rejoinOther") /\ ~Ran("emit")
     /\ ~(Ran("joinOther") /\ (Ran("leave") \/ Ran("dropOther")))) =>
    \A c \in Comps, m \in Methods : invoked[c][m] <= 1

\* ------------------------------------------------------------------ C35
\* This step calls a method of controller c: the count kept for the call
\* of the listener in progress goes up (it is put away with that call
\* when the handler dispatches an event).
CalledInStep(c) ==
  /\ pc = "iterating"
  /\ Len(stack') >= Len(stack)
  /\ LET after == IF Len(stack') > Len(stack)
                    THEN stack'[Len(stack')].invoked ELSE invoked'
     IN \E m \in Methods : after[c][m] > invoked[c][m]

\* C35: whenever a method of a controller is called, the controller is in
\* the registry's set at that moment and its wrapped disconnect has not run
\* since its last connect: a controller disconnected by an earlier handler
\* of the same dispatch, or of a dispatch nested in it, is not called
\* later in that dispatch.
C35_OnlyMembersInvoked ==
  [][\A c \in Comps : CalledInStep(c) => (c \in Active /\ ~deactivated[c])]_vars

\* The first controller's handler dispatched an event whose handler
\* disconnected the second controller; the outer dispatch has ended
\* without calling the second, which has a handler for its event.
C35_Witness ==
  /\ pc = "done"
  /\ stack = <<>>
  /\ ActionName = "a"
  /\ controllers = <<"c1">>
  /\ invoked["c1"]["emit"] = 1
  /\ Descriptor("c1", "b").method = "dropOther"
  /\ deactivated["c2"]
  /\ Eligible("c2", "a")
  /\ NotInvoked("c2")

\* Inside that nested dispatch: the second controller has just been
\* disconnected while the outer loop waits at the first.
C35_WitnessNested ==
  /\ pc = "done"
  /\ Len(stack) = 1
  /\ stack[1].cur = 1
  /\ invoked["c1"]["dropOther"] = 1
  /\ controllers = <<"c1">>
  /\ deactivated["c2"]
  /\ Eligible("c2", "a")

\* ------------------------------------------------------------------ C36
\* C36: for a controller bound more than once (wireStreamActions has
\* wrapped its hooks two or more times), a connect runs the class's own
\* connect exactly once if there is one, leaves the controller registered
\* and raises getControllerCount() by one (by nothing if it was registered);
\* a disconnect runs the class's own disconnect exactly once, leaves the
\* controller unregistered and lowers the count by one (by nothing if it
\* was not registered); and an event it handles calls its method once.
C36_RepeatedBinding ==
  /\ (Returned("connect") /\ wrapped[call.c] >= 2) =>
       /\ Count(call.trace, "originalConnect") = (IF HasOwnHooks(call.c) THEN 1 ELSE 0)
       /\ call.c \in Active
       /\ getControllerCount = call.size + (IF call.member THEN 0 ELSE 1)
  /\ (Returned("disconnect") /\ wrapped[call.c] >= 2) =>
       /\ Count(call.trace, "originalDisconnect") = (IF HasOwnHooks(call.c) THEN 1 ELSE 0)
       /\ call.c \notin Active
       /\ getControllerCount = call.size - (IF call.member THEN 1 ELSE 0)
  /\ Dispatched =>
       \A c \in Active :
         (wrapped[c] >= 2 /\ Eligible(c, ActionName)) =>
           InvokedOnly(c, Descriptor(c, ActionName).method)

\* A controller with hooks of its own, bound through its class's map and
\* through an override map, connects for the first time: its own connect
\* ran once and the count went up by one.
C36_Witness ==
  /\ Returned("connect")
  /\ HasOwnHooks(call.c)
  /\ wrapped[call.c] = 2
  /\ streamActions.defined
  /\ customStreamActions[call.c] # NoMap
  /\ ~call.member
  /\ call.trace = <<"originalConnect", "register", "register">>
  /\ getControllerCount = call.size + 1

\* Such a controller, registered, has handled an event: one call.
C36_WitnessEvent ==
  /\ Dispatched
  /\ \E c \in Active :
       /\ wrapped[c] = 2
       /\ customStreamActions[c] # NoMap
       /\ Eligible(c, ActionName)
       /\ InvokedOnly(c, Descriptor(c, ActionName).method)

\* ------------------------------------------------------------------ C37
\* C37: unregister of a controller that is not in the set gives the
\* registry back as it was, in every state; a disconnect of a wired
\* controller that is not registered (never connected, or disconnected
\* before) returns without raising and leaves the set, the flag and the
\* document listener alone; and no unregister that leaves an entry in the
\* set unsubscribes.
C37_UnregisterNonMember ==
  [][/\ \A c \in Comps \ Active : unregister(RegistryState, c) = RegistryState
     /\ \A c \in Comps :
          LET st == unregister(RegistryState, c) IN
          Len(st.controllers) > 0 =>
            (st.isListening = isListening /\ st.docListener = docListener)
     /\ (pc = "idle" /\ pc' = "returned" /\ call'.op = "disconnect"
           /\ call'.c \notin Active /\ wrapped[call'.c] > 0) =>
          /\ UNCHANGED registry
          /\ ~escaped']_vars

\* A wired controller that is not registered has been disconnected while
\* another one is registered: that one is still there, still subscribed.
C37_Witness ==
  /\ Returned("disconnect")
  /\ wrapped[call.c] > 0
  /\ ~call.member
  /\ call.size = 1
  /\ getControllerCount = 1
  /\ call.c \notin Active
  /\ isListeningForEvents
  /\ docListener

\* ------------------------------------------------------------------ C38
\* A hook call of the named kind returns to the host with an exception.
Raises(op) == pc = "idle" /\ pc' = "returned" /\ call'.op = op /\ escaped'

\* C38: when the class's own connect throws, the connect of a bound
\* controller leaves the set, the flag and the document listener as they
\* were, the controller not added; when the class's own disconnect throws,
\* the controller has been removed from the set by then and the listener
\* dropped if it was the last; after both the flag is true exactly when
\* the set is non-empty.
C38_RaisingHooks ==
  [][/\ (Raises("connect") /\ wrapped[call'.c] > 0) =>
          /\ UNCHANGED registry
          /\ call'.trace = <<"originalConnect">>
     /\ (Raises("disconnect") /\ wrapped[call'.c] > 0) =>
          /\ controllers' = SetDelete(controllers, call'.c)
          /\ call'.trace[Len(call'.trace)] = "originalDisconnect"
     /\ (Raises("connect") \/ Raises("disconnect")) =>
          /\ isListening' <=> Len(controllers') > 0
          /\ docListener' <=> isListening']_vars

\* The own disconnect of the only registered controller threw: the set is
\* empty and the listener is gone.
C38_Witness ==
  /\ Returned("disconnect")
  /\ escaped
  /\ wrapped[call.c] > 0
  /\ call.member
  /\ call.size = 1
  /\ controllers = <<>>
  /\ ~isListening
  /\ ~docListener

\* The own connect of a bound, unregistered controller threw: it is not in
\* the set.
C38_WitnessConnect ==
  /\ Returned("connect")
  /\ escaped
  /\ wrapped[call.c] = 2
  /\ ~call.member
  /\ call.c \notin Active

\* ------------------------------------------------------------------ C39
\* C39: a useCustomStreamActions call changes the override map of the
\* controller it is given only, never another controller's nor the class's
\* static map; and the turn of a controller bound without an override,
\* while the other controller has one, goes by the static entry alone: no
\* entry, nothing called and the default untouched; an entry, the default
\* prevented by that entry's flag and that entry's method the one called.
C39_OverrideIsPerInstance ==
  [][/\ (pc = "idle" /\ pc' = "returned" /\ call'.op = "useCustomStreamActions") =>
          /\ streamActions' = streamActions
          /\ \A c \in Comps \ {call'.c} :
               customStreamActions'[c] = customStreamActions[c]
     /\ (pc = "iterating" /\ ActionName \in Keys) =>
          LET c == controllers[cursor]
              d == streamActions.map[ActionName]
          IN (customStreamActions[c] = NoMap
                /\ customStreamActions[Other(c)] # NoMap) =>
               /\ ~InStatic(ActionName) =>
                    (invoked' = invoked /\ defaultPrevented' = defaultPrevented)
               /\ (InStatic(ActionName) /\ ValidDescriptor(d)) =>
                    /\ defaultPrevented' = (defaultPrevented \/ Suppresses(d))
                    /\ invoked' = IF Callable(d.method) /\ isConnected[c]
                                    THEN [invoked EXCEPT ![c][d.method] = @ + 1]
                                    ELSE invoked]_vars

\* Two registered controllers of the class, the first with an override for
\* the event's action, the second bound without one: the first ran its
\* override's method, the second the static entry's.
C39_Witness ==
  /\ pc = "done"
  /\ ActionName = "a"
  /\ Len(controllers) = 2
  /\ InOverride(controllers[1], "a")
  /\ customStreamActions[controllers[2]] = NoMap
  /\ InStatic("a")
  /\ Descriptor(controllers[1], "a").method # streamActions.map["a"].method
  /\ InvokedOnly(controllers[1], Descriptor(controllers[1], "a").method)
  /\ InvokedOnly(controllers[2], streamActions.map["a"].method)

====
